---- MODULE Spec2Model ----
(***************************************************************************)
(* Model of the steemee static server (src/app.py): a Flask application    *)
(* whose URL map sends every GET to one of the twelve view functions of    *)
(* the source, or to the view of the static folder that Flask(__name__)    *)
(* adds; each view reads at most one file below (or, through "..", above)  *)
(* the application directory.                                              *)
(*                                                                         *)
(* Text is modelled as a sequence of tokens: the characters "/" and "."    *)
(* are tokens of their own and every other token is a word holding neither *)
(* of them, so that `'.' in path`, `endswith('.js')`, the f-string         *)
(* concatenations and the splitting of a path at "/" are computed on the   *)
(* text as the code computes them.                                         *)
(*                                                                         *)
(* The framework's primitives the source calls are modelled by what they   *)
(* do (Flask 2 and 3, Werkzeug 2.2 and later): the matcher of the URL map  *)
(* tries a static segment before any converter, converters in order of     *)
(* weight, ties in the order the rules were added; send_file joins a       *)
(* relative path to the application root and opens it, and an absent file  *)
(* raises FileNotFoundError, which the application answers with status     *)
(* 500; send_from_directory goes through safe_join and isfile, each        *)
(* failure a NotFound, and then send_file.  The request path reaches the   *)
(* matcher as the client wrote it: ".." segments are not folded.           *)
(***************************************************************************)
EXTENDS Integers, Sequences, FiniteSets, TLC

VARIABLES
    fs,         \* the regular files on disk, each an absolute list of names
    url_map,    \* the rules the @app.route decorators registered, in order
    pc,         \* "idle" | "dispatched" | "responded"
    req,        \* the path of the request being handled
    endpoint,   \* the view function the URL map chose for req
    view_args,  \* the text the <path:...> converter captured
    resp,       \* the response of the view function
    prev        \* the response an earlier handling of the same request got

vars == <<fs, url_map, pc, req, endpoint, view_args, resp, prev>>

\* The longest request path, in segments.
MaxSegs == 3

(***************************************************************************)
(* Text                                                                    *)
(***************************************************************************)
Slash == "/"
Dot == "."

Range(s) == {s[i] : i \in 1..Len(s)}

\* str.endswith
EndsWith(s, suffix) ==
    /\ Len(s) >= Len(suffix)
    /\ SubSeq(s, Len(s) - Len(suffix) + 1, Len(s)) = suffix

\* str.startswith
StartsWith(s, prefix) ==
    /\ Len(s) >= Len(prefix)
    /\ SubSeq(s, 1, Len(prefix)) = prefix

\* The text without its last n tokens.
DropLast(s, n) == SubSeq(s, 1, Len(s) - n)

\* "/".join(segments)
RECURSIVE JoinSlash(_)
JoinSlash(segs) ==
    IF segs = <<>> THEN <<>>
    ELSE IF Len(segs) = 1 THEN segs[1]
    ELSE segs[1] \o <<Slash>> \o JoinSlash(Tail(segs))

\* text.split("/")
RECURSIVE SplitFrom(_, _, _)
SplitFrom(s, i, cur) ==
    IF i > Len(s) THEN <<cur>>
    ELSE IF s[i] = Slash THEN <<cur>> \o SplitFrom(s, i + 1, <<>>)
    ELSE SplitFrom(s, i + 1, Append(cur, s[i]))

Split(s) == SplitFrom(s, 1, <<>>)

JS == <<Dot, "js">>
HTML == <<Dot, "html">>
DotDot == <<Dot, Dot>>

(***************************************************************************)
(* Names                                                                   *)
(***************************************************************************)
Word(w) == <<w>>
Named(stem, ext) == <<stem, Dot, ext>>

IndexHtml == Named("index", "html")
ManifestJson == Named("manifest", "json")
SwJs == Named("sw", "js")
FaviconIco == Named("favicon", "ico")
AJs == Named("a", "js")
BCss == Named("b", "css")

\* The six directories the source serves with a view function each, in the
\* order of their decorators.
Categories == <<"components", "services", "utils", "views", "models", "controllers">>
CategorySet == Range(Categories)

\* First segments a rule of the URL map spells out.
PrefixWords == {"static", "assets"} \cup CategorySet

(***************************************************************************)
(* The file system.  A file is the absolute list of its names; its bytes   *)
(* are identified with it, so two files never hold the same bytes.         *)
(***************************************************************************)
\* Flask(__name__).root_path: the directory that holds app.py.
RootPath == << Word("app") >>

Under(dir, names) == dir \o names

RootFiles == {Under(RootPath, <<n>>) : n \in {IndexHtml, ManifestJson, SwJs, FaviconIco, AJs, BCss}}

DirFiles(d) ==
    { Under(RootPath, <<Word(d), AJs>>),
      Under(RootPath, <<Word(d), BCss>>),
      Under(RootPath, <<Word(d), Word("dashboard"), AJs>>) }

\* Files above the application root.
OutsideFiles == { <<AJs>>, <<BCss>> }

AllFiles ==
    RootFiles
    \cup {Under(RootPath, <<Word("dashboard"), AJs>>)}
    \cup UNION {DirFiles(d) : d \in PrefixWords}
    \cup OutsideFiles

\* What may be absent from disk: nothing, any one file of the root, the
\* script of a served directory or the whole directory, or everything above
\* the root.
Absences ==
    {{}} \cup {{f} : f \in RootFiles \cup {Under(RootPath, <<Word("dashboard"), AJs>>)}}
         \cup {{Under(RootPath, <<Word(d), AJs>>)} : d \in PrefixWords}
         \cup {DirFiles(d) : d \in PrefixWords}
         \cup {OutsideFiles}

FileSystems == {AllFiles \ m : m \in Absences}

Front(s) == SubSeq(s, 1, Len(s) - 1)

\* Whether d is a directory of file system f: a proper prefix of a file, or
\* the application root or a directory above it.
IsDir(f, d) ==
    \/ StartsWith(RootPath, d)
    \/ \E p \in f : Len(p) > Len(d) /\ StartsWith(p, d)

\* The kernel's walk of a path, name by name from the directory at: ".."
\* steps to the parent (the top directory is its own parent), "." and an
\* empty name stay, any other name steps down.  A step out of something that
\* is no directory fails.
RECURSIVE Walk(_, _, _)
Walk(f, at, names) ==
    IF names = <<>> THEN [found |-> TRUE, at |-> at]
    ELSE IF ~IsDir(f, at) THEN [found |-> FALSE, at |-> <<>>]
    ELSE LET n == Head(names) IN
         IF n = DotDot THEN Walk(f, IF at = <<>> THEN at ELSE Front(at), Tail(names))
         ELSE IF n \in {<<Dot>>, <<>>} THEN Walk(f, at, Tail(names))
         ELSE Walk(f, Append(at, n), Tail(names))

\* os.path.join(root_path, path) as the kernel resolves it.
Resolve(f, path) == Walk(f, <<>>, RootPath \o Split(path))

\* os.path.isfile(os.path.join(root_path, path))
IsFile(f, path) ==
    LET r == Resolve(f, path)
    IN  r.found /\ r.at \in f

\* posixpath.normpath of a relative path: empty and "." names are dropped,
\* ".." removes the name before it unless there is none or it is ".." itself.
RECURSIVE NormNames(_, _)
NormNames(names, acc) ==
    IF names = <<>> THEN acc
    ELSE LET n == Head(names) IN
         IF n \in {<<Dot>>, <<>>} THEN NormNames(Tail(names), acc)
         ELSE IF n = DotDot /\ acc # <<>> /\ acc[Len(acc)] # DotDot
              THEN NormNames(Tail(names), Front(acc))
         ELSE NormNames(Tail(names), Append(acc, n))

normpath(path) ==
    LET names == NormNames(Split(path), <<>>)
    IN  IF names = <<>> THEN <<Dot>> ELSE JoinSlash(names)

\* werkzeug.security.safe_join(directory, filename): None (ok = FALSE) for a
\* filename that is absolute or, once normalised, leads out of the directory.
safe_join(directory, filename) ==
    LET n == IF filename = <<>> THEN filename ELSE normpath(filename)
    IN  IF \/ StartsWith(n, <<Slash>>)
           \/ n = DotDot
           \/ StartsWith(n, DotDot \o <<Slash>>)
        THEN [ok |-> FALSE, path |-> <<>>]
        ELSE [ok |-> TRUE, path |-> directory \o <<Slash>> \o n]

(***************************************************************************)
(* Responses                                                               *)
(***************************************************************************)
\* A content type is either declared by the code or guessed by
\* mimetypes.guess_type from the extension of the file's name; what the
\* guess yields is the platform's business, so it is kept symbolic.
Declared(t) == <<"declared", t>>

Guessed(path) ==
    LET last == Split(path)[Len(Split(path))]
    IN  <<"guessed", IF Dot \in Range(last) THEN last[Len(last)] ELSE "">>

ApplicationJavascript == Declared("application/javascript")
ApplicationJson == Declared("application/json")
TextHtml == Declared("text/html")

NoFile == <<>>

Response(status, mimetype, file, text) ==
    [status |-> status, mimetype |-> mimetype, file |-> file, text |-> text]

NoResponse == Response(0, <<"", "">>, NoFile, "")

\* werkzeug.exceptions.NotFound as the application answers it.
NotFound == Response(404, TextHtml, NoFile, "Not Found")

\* An exception no handler catches: Flask answers 500.
InternalServerError == Response(500, TextHtml, NoFile, "Internal Server Error")

\* The mimetype argument of send_file left out.
NoMimetype == <<"", "">>

\* send_file(path, mimetype=...): the file at root_path/path with the given
\* content type, or the guessed one.  Nothing checks where the path leads, and
\* a path that opens no regular file raises an OSError nobody catches.
send_file(f, path, mimetype) ==
    IF IsFile(f, path)
    THEN Response(200, IF mimetype = NoMimetype THEN Guessed(path) ELSE mimetype,
                  Resolve(f, path).at, "")
    ELSE InternalServerError

\* send_from_directory(directory, filename)
send_from_directory(f, directory, filename) ==
    LET j == safe_join(directory, filename)
    IN  IF ~j.ok THEN NotFound
        ELSE IF ~IsFile(f, j.path) THEN NotFound
        ELSE send_file(f, j.path, NoMimetype)
(***************************************************************************)
(* The URL map                                                             *)
(***************************************************************************)
\* A rule "/s1/.../sn", "/s1/.../sn/<path:arg>" or "/s1/.../sn/<path:arg>suffix".
Rule(view, static, converter, suffix) ==
    [endpoint |-> view, static |-> static, converter |-> converter, suffix |-> suffix]

CategoryRule(i) == Rule(Categories[i], <<Word(Categories[i])>>, "path", <<>>)

\* The map with the bare .js rule written with the default converter, which
\* stops at a slash: the fault C10 rules out.
UrlMapOneSegment ==
    << Rule("static", <<Word("static")>>, "path", <<>>),
       Rule("assets", <<Word("assets")>>, "path", <<>>),
       Rule("javascript_files", <<>>, "string", JS),
       Rule("manifest", <<ManifestJson>>, "", <<>>),
       Rule("service_worker", <<SwJs>>, "", <<>>),
       Rule("favicon", <<FaviconIco>>, "", <<>>) >>
    \o [i \in 1..Len(Categories) |-> CategoryRule(i)]
    \o << Rule("serve_spa", <<>>, "path", <<>>),
          Rule("serve_spa", <<>>, "", <<>>) >>

\* The rules in the order they are added: Flask(__name__) adds the rule of
\* its static folder, then each @app.route adds its own (of two decorators
\* on one function the lower one runs first).
UrlMap ==
    << Rule("static", <<Word("static")>>, "path", <<>>),
       Rule("assets", <<Word("assets")>>, "path", <<>>),
       Rule("javascript_files", <<>>, "path", JS),
       Rule("manifest", <<ManifestJson>>, "", <<>>),
       Rule("service_worker", <<SwJs>>, "", <<>>),
       Rule("favicon", <<FaviconIco>>, "", <<>>) >>
    \o [i \in 1..Len(Categories) |-> CategoryRule(i)]
    \o << Rule("serve_spa", <<>>, "path", <<>>),
          Rule("serve_spa", <<>>, "", <<>>) >>

\* The segments of a request path: "/" has none.
PathParts(path) == IF path = <<Slash>> THEN <<>> ELSE Split(Tail(path))

\* What is left of the path after the rule's static segments.
Rest(rule, parts) == JoinSlash(SubSeq(parts, Len(rule.static) + 1, Len(parts)))

\* The text the rule's converter captures.
Captured(rule, parts) == DropLast(Rest(rule, parts), Len(rule.suffix))

\* The path converter matches [^/].*? (any text that is not empty and does
\* not begin with a slash), the default converter [^/]+ (one segment).
ConverterAccepts(converter, text) ==
    /\ text # <<>>
    /\ text[1] # Slash
    /\ converter = "string" => Slash \notin Range(text)

RuleMatches(rule, parts) ==
    LET n == Len(rule.static)
    IN  /\ Len(parts) >= n
        /\ SubSeq(parts, 1, n) = rule.static
        /\ IF rule.converter = "" THEN Len(parts) = n
           ELSE LET rest == Rest(rule, parts)
                IN  /\ EndsWith(rest, rule.suffix)
                    /\ ConverterAccepts(rule.converter, DropLast(rest, Len(rule.suffix)))

\* A matcher that tries the rules in the order they were added, whatever
\* their shape: the fault under which /sw.js and /components/<rest>.js would
\* go to the bare .js rule.
PrecedesDeclared(map, i, j) == i < j

\* The matcher tries a static segment before any converter, and of two
\* converters in one place the one with more static text first; rules that
\* tie are tried in the order they were added.
Precedes(map, i, j) ==
    \/ Len(map[i].static) > Len(map[j].static)
    \/ /\ Len(map[i].static) = Len(map[j].static)
       /\ Len(map[i].suffix) > Len(map[j].suffix)
    \/ /\ Len(map[i].static) = Len(map[j].static)
       /\ Len(map[i].suffix) = Len(map[j].suffix)
       /\ i < j

\* The rules of the map that match the path.
Matching(map, path) ==
    LET parts == PathParts(path)
    IN  {i \in 1..Len(map) : RuleMatches(map[i], parts)}

\* The index of the rule that handles the path, 0 when none matches.
Match(map, path) ==
    LET M == Matching(map, path)
    IN  IF M = {} THEN 0
        ELSE CHOOSE i \in M : \A j \in M \ {i} : Precedes(map, i, j)

(***************************************************************************)
(* Requests                                                                *)
(***************************************************************************)
\* Segments a request may hold anywhere, and those it may start with.
TailSegs == {DotDot, AJs, BCss, Named("john", "doe"), Word("dashboard")}

HeadSegs ==
    TailSegs
    \cup {Word(w) : w \in PrefixWords}
    \cup {ManifestJson, SwJs, FaviconIco, JS, Named("about", "html")}

SeqsUpTo(S, n) == UNION {[1..k -> S] : k \in 0..n}

\* "/" and every path of one to MaxSegs segments, none of them empty (no
\* doubled and no trailing slash).
RequestPaths ==
    {<<Slash>>}
    \cup {<<Slash>> \o JoinSlash(<<h>> \o t) : h \in HeadSegs, t \in SeqsUpTo(TailSegs, MaxSegs - 1)}

NoPath == <<>>

Init ==
    /\ fs \in FileSystems
    /\ url_map = UrlMap
    /\ pc = "idle"
    /\ req = NoPath
    /\ endpoint = ""
    /\ view_args = <<>>
    /\ resp = NoResponse
    /\ prev = NoResponse

\* The URL map chooses the view function and its argument; a path no rule
\* matches is answered NotFound at once.
Dispatch(path) ==
    LET i == Match(url_map, path)
    IN  IF i = 0
        THEN /\ pc' = "responded"
             /\ endpoint' = ""
             /\ view_args' = <<>>
             /\ resp' = NotFound
        ELSE /\ pc' = "dispatched"
             /\ endpoint' = url_map[i].endpoint
             /\ view_args' = IF url_map[i].converter = "" THEN <<>>
                             ELSE Captured(url_map[i], PathParts(path))
             /\ resp' = NoResponse

Receive ==
    /\ pc = "idle"
    /\ \E p \in RequestPaths :
          /\ req' = p
          /\ Dispatch(p)
    /\ UNCHANGED <<fs, url_map, prev>>

\* A view function that moves the file it serves away: the fault C8 rules out.
ReplyConsuming(r) ==
    /\ resp' = r
    /\ pc' = "responded"
    /\ fs' = fs \ {r.file}
    /\ UNCHANGED <<url_map, req, endpoint, view_args, prev>>

\* A view function returns: nothing but the response is written.
Reply(r) ==
    /\ resp' = r
    /\ pc' = "responded"
    /\ UNCHANGED <<fs, url_map, req, endpoint, view_args, prev>>

View(name, r) ==
    /\ pc = "dispatched"
    /\ endpoint = name
    /\ Reply(r)

\* Flask.send_static_file, the view of the static folder's rule.
send_static_file == View("static", send_from_directory(fs, Word("static"), view_args))

assets == View("assets", send_from_directory(fs, Word("assets"), view_args))

javascript_files == View("javascript_files", send_file(fs, view_args \o JS, ApplicationJavascript))

\* The manifest sent without its declared type: the fault C9 rules out.
manifest_untyped == View("manifest", send_file(fs, ManifestJson, NoMimetype))

manifest == View("manifest", send_file(fs, ManifestJson, ApplicationJson))

service_worker == View("service_worker", send_file(fs, SwJs, ApplicationJavascript))

favicon == View("favicon", send_file(fs, FaviconIco, NoMimetype))

\* The category view with the directory left out of the .js branch: the
\* fault C3 rules out.
category_view_unprefixed(f, directory, filename) ==
    IF EndsWith(filename, JS)
    THEN send_file(f, filename, ApplicationJavascript)
    ELSE send_from_directory(f, Word(directory), filename)

\* The category view without its .js branch: the fault C4 rules out.
category_view_untyped(f, directory, filename) ==
    send_from_directory(f, Word(directory), filename)

\* The body the six category view functions share.
category_view(f, directory, filename) ==
    IF EndsWith(filename, JS)
    THEN send_file(f, <<directory, Slash>> \o filename, ApplicationJavascript)
    ELSE send_from_directory(f, Word(directory), filename)

components == View("components", category_view(fs, "components", view_args))

services == View("services", category_view(fs, "services", view_args))

utils == View("utils", category_view(fs, "utils", view_args))

views == View("views", category_view(fs, "views", view_args))

models == View("models", category_view(fs, "models", view_args))

controllers == View("controllers", category_view(fs, "controllers", view_args))

FileNotFoundText == Response(404, TextHtml, NoFile, "File not found")

\* serve_spa(path=''): view_args is empty for "/".
spa_response(f, path) ==
    IF Dot \in Range(path) /\ ~EndsWith(path, HTML)
    THEN FileNotFoundText
    ELSE send_file(f, IndexHtml, NoMimetype)

serve_spa == View("serve_spa", spa_response(fs, view_args))

\* The client sends the same GET again.
Repeat ==
    /\ pc = "responded"
    /\ prev' = resp
    /\ Dispatch(req)
    /\ UNCHANGED <<fs, url_map, req>>

\* The exchange is over; nothing of it is kept.
Finish ==
    /\ pc = "responded"
    /\ pc' = "idle"
    /\ req' = NoPath
    /\ endpoint' = ""
    /\ view_args' = <<>>
    /\ resp' = NoResponse
    /\ prev' = NoResponse
    /\ UNCHANGED <<fs, url_map>>

Next ==
    \/ Receive
    \/ send_static_file
    \/ assets
    \/ javascript_files
    \/ manifest
    \/ service_worker
    \/ favicon
    \/ components
    \/ services
    \/ utils
    \/ views
    \/ models
    \/ controllers
    \/ serve_spa
    \/ Repeat
    \/ Finish

Spec == Init /\ [][Next]_vars
(***************************************************************************)
(* Vocabulary of the properties                                            *)
(***************************************************************************)
Responded == pc = "responded"

Url(segs) == <<Slash>> \o JoinSlash(segs)

\* The rules the specification lists before the SPA fallback.
ListedEndpoints ==
    {"assets", "javascript_files", "manifest", "service_worker", "favicon"} \cup CategorySet

\* The endpoints that have a rule matching the path.
MatchingEndpoints(path) == {url_map[i].endpoint : i \in Matching(url_map, path)}

MatchesEndpoint(e, path) == e \in MatchingEndpoints(path)

\* The path matches none of the asset, bare .js, named-file or category rules.
OnlyFallbackListed(path) == MatchingEndpoints(path) \cap ListedEndpoints = {}

\* The directory a view function is configured to serve from.
ServedDir(e) ==
    IF e \in CategorySet \cup {"assets", "static"} THEN Under(RootPath, <<Word(e)>>)
    ELSE RootPath

\* The file below the application root that the request path spells out.
FileAt(path) == Under(RootPath, PathParts(path))

IndexFile == Under(RootPath, <<IndexHtml>>)

\* The first endpoint of the list that has a rule matching the path.
FirstMatch(order, path) ==
    LET E == MatchingEndpoints(path)
        M == {k \in 1..Len(order) : order[k] \in E}
    IN  IF M = {} THEN "" ELSE order[CHOOSE k \in M : \A j \in M : k <= j]

\* The order the specification states.
StatedOrder ==
    <<"assets", "javascript_files", "manifest", "service_worker", "favicon">>
    \o Categories \o <<"serve_spa">>

\* The order the URL map follows.
SpecificOrder ==
    <<"static", "assets", "manifest", "service_worker", "favicon">>
    \o Categories \o <<"javascript_files", "serve_spa">>

\* What the view function of endpoint e returns for the request path.
Returns(e, path) ==
    LET i == CHOOSE k \in Matching(url_map, path) : url_map[k].endpoint = e
        arg == IF url_map[i].converter = "" THEN <<>>
               ELSE Captured(url_map[i], PathParts(path))
    IN  CASE e = "assets" -> send_from_directory(fs, Word("assets"), arg)
          [] e = "javascript_files" -> send_file(fs, arg \o JS, ApplicationJavascript)
          [] e = "manifest" -> send_file(fs, ManifestJson, ApplicationJson)
          [] e = "service_worker" -> send_file(fs, SwJs, ApplicationJavascript)
          [] e = "favicon" -> send_file(fs, FaviconIco, NoMimetype)
          [] e \in CategorySet -> category_view(fs, e, arg)
          [] OTHER -> spa_response(fs, arg)

(***************************************************************************)
(* C1.  A request handled by the asset rule, the bare .js rule or a        *)
(* category rule is never answered with a file outside the directory the   *)
(* rule serves from (the assets directory, the application root, the       *)
(* category directory), whatever ".." segments the path holds.             *)
(* The .js branches hand the path to send_file unchecked, so this fails.   *)
(***************************************************************************)
C1_ServesOnlyInsideDirectory ==
    (Responded /\ endpoint \in {"assets", "javascript_files"} \cup CategorySet /\ resp.file # NoFile)
        => StartsWith(resp.file, ServedDir(endpoint))

(***************************************************************************)
(* C2.  When the bare .js rule, a named-root-file rule or a category rule  *)
(* handles a request and no file is served, the status is 404.             *)
(* send_file raises on an absent file and the application answers 500.     *)
(***************************************************************************)
C2_MissingFileIs404 ==
    (Responded /\ endpoint \in ListedEndpoints \ {"assets"} /\ resp.file = NoFile)
        => resp.status = 404

(***************************************************************************)
(* C3.  For each of the six categories and every file on disk below the    *)
(* category directory, the request for /<category>/<relpath> is answered   *)
(* 200 with that file's bytes, whether or not the path ends with .js.      *)
(***************************************************************************)
InCategory(p) ==
    \E c \in CategorySet : StartsWith(p, ServedDir(c)) /\ Len(p) > Len(ServedDir(c))

C3_CategoryFileServed ==
    Responded =>
        \A p \in fs : (InCategory(p) /\ req = Url(SubSeq(p, Len(RootPath) + 1, Len(p))))
                          => (resp.status = 200 /\ resp.file = p)

C3_Witness ==
    /\ Responded
    /\ ~EndsWith(req, JS)
    /\ InCategory(FileAt(req))
    /\ FileAt(req) \in fs
    /\ resp.status = 200

C5_DottedPathIs404 ==
    (Responded /\ OnlyFallbackListed(req) /\ Dot \in Range(req) /\ ~EndsWith(req, HTML))
        => (resp.status = 404 /\ resp.file = NoFile)

(***************************************************************************)
(* C6.  With index.html on disk, a request path that matches none of the   *)
(* asset, bare .js, named-file or category rules and that holds no "." or  *)
(* ends with .html is answered 200 with the bytes of index.html.           *)
(* /static/<rest> is answered by the static folder's rule instead.         *)
(***************************************************************************)
C6_FallbackServesIndex ==
    (Responded /\ OnlyFallbackListed(req) /\ IndexFile \in fs
        /\ (Dot \notin Range(req) \/ EndsWith(req, HTML)))
        => (resp.status = 200 /\ resp.file = IndexFile)

NamedType(n) ==
    IF n = ManifestJson THEN ApplicationJson
    ELSE IF n = SwJs THEN ApplicationJavascript
    ELSE Guessed(n)

C9_NamedRootFiles ==
    \A n \in {ManifestJson, SwJs, FaviconIco} :
        (req = Url(<<n>>) /\ pc \in {"dispatched", "responded"}) =>
            /\ endpoint # "serve_spa"
            /\ Responded => resp # FileNotFoundText
            /\ (Responded /\ FileAt(req) \in fs) =>
                  /\ resp.status = 200
                  /\ resp.file = FileAt(req)
                  /\ resp.mimetype = NamedType(n)

C9_Witness ==
    /\ Responded
    /\ req = Url(<<ManifestJson>>)
    /\ resp.status = 200
    /\ resp.mimetype = ApplicationJson

(***************************************************************************)
(* C10.  A path /<name>.js with a name that is not empty is never handled  *)
(* by the SPA fallback; whatever the bare .js rule handles, of however     *)
(* many segments, is resolved as <name>.js from the application root; a    *)
(* path of several segments that ends with .js and does not start with a   *)
(* prefix of another rule is handled by the bare .js rule; and /.js goes   *)
(* to the fallback, which answers 404.                                     *)
(***************************************************************************)
C10_BareJsNeverFallsBack ==
    pc \in {"dispatched", "responded"} =>
        /\ (EndsWith(req, JS) /\ req # Url(<<JS>>)) => endpoint # "serve_spa"
        /\ (EndsWith(req, JS) /\ Len(PathParts(req)) > 1
               /\ PathParts(req)[1] \notin {Word(w) : w \in PrefixWords})
              => endpoint = "javascript_files"
        /\ (Responded /\ endpoint = "javascript_files")
              => resp = send_file(fs, Tail(req), ApplicationJavascript)
        /\ req = Url(<<JS>>) =>
              /\ endpoint = "serve_spa"
              /\ Responded => resp = FileNotFoundText

C10_Witness ==
    /\ Responded
    /\ req = Url(<<Word("dashboard"), AJs>>)
    /\ endpoint = "javascript_files"
    /\ resp.status = 200
    /\ resp.file = FileAt(req)
====
